---- MODULE Spec2Model ----
(***************************************************************************)
(* EZVals: case expansion (ezvals/cases.py) and run-name resolution over   *)
(* the results store (ezvals/storage.py, ezvals/cli.py).                   *)
(*                                                                         *)
(* Python values are modelled as tagged records [t |-> type, v |-> value]  *)
(* so that None, "", 0, [], () and {} stay distinct, exactly as the        *)
(* comparisons and truth tests of the code distinguish them.               *)
(***************************************************************************)
EXTENDS Integers, Sequences, FiniteSets, TLC

VARIABLES
  func,      \* the object handed to apply_cases / generate_eval_functions
  attrs,     \* __case_sets__ / __case_ids__ attributes, per attribute holder
  cases,     \* the declaration passed to the most recent apply_cases call
  ret,       \* outcome of the most recent call (return value or raised error)
  store,     \* ResultsStore: the run records on disk, keyed by run_id
  out,       \* outcome of the most recent save_run / resolve call
  calls      \* save_run and resolve calls in progress, for interleaved use

vars == <<func, attrs, cases, ret, store, out, calls>>

----------------------------------------------------------------------------
(* Bounds of the model *)

MaxCases == 2       \* longest case declaration
MaxLabels == 2      \* longest labels override of a case
MaxRuns == 3        \* run identifiers available to the store
MaxWriters == 2     \* save_run calls of one interleaving

----------------------------------------------------------------------------
(* Python values *)

PyNone == [t |-> "None", v |-> <<>>]
PyStr(s) == [t |-> "str", v |-> s]
PyInt(i) == [t |-> "int", v |-> i]
PyList(q) == [t |-> "list", v |-> q]
PyTuple(q) == [t |-> "tuple", v |-> q]
PyDict(f) == [t |-> "dict", v |-> f]

\* x is None
IsNone(x) == x.t = "None"

\* bool(x): None, "", 0 and empty containers are false
Truthy(x) ==
  CASE x.t = "None" -> FALSE
    [] x.t = "str" -> x.v # ""
    [] x.t = "int" -> x.v # 0
    [] x.t = "list" -> Len(x.v) > 0
    [] x.t = "tuple" -> Len(x.v) > 0
    [] x.t = "dict" -> DOMAIN x.v # {}
    [] OTHER -> TRUE

\* str(x)
str(x) ==
  CASE x.t = "str" -> x.v
    [] x.t = "int" -> ToString(x.v)
    [] OTHER -> "None"

\* x == []  (a list compares equal only to a list)
EqEmptyList(x) == x.t = "list" /\ Len(x.v) = 0

\* isinstance(x, (list, tuple))
IsListOrTuple(x) == x.t \in {"list", "tuple"}

\* l in q
InSeq(l, q) == \E i \in 1..Len(q) : q[i] = l

\* the sequences over alphabet A of length lo..hi
SeqsOf(A, lo, hi) == UNION {[1..n -> A] : n \in lo..hi}

----------------------------------------------------------------------------
(* Errors and call outcomes *)

NoError == [type |-> "", msg |-> "", idx |-> -1, keys |-> {}]
ValueError(m, i, ks) == [type |-> "ValueError", msg |-> m, idx |-> i, keys |-> ks]

NoCall == [op |-> "", error |-> NoError, functions |-> <<>>]

----------------------------------------------------------------------------
(* cases.py *)

RESERVED_CASE_KEYS ==
  {"input", "reference", "metadata", "dataset", "labels",
   "default_score_key", "timeout", "target", "evaluators"}

\* CaseBlock, with the error raised (if any) and the lists as they stood then
CaseBlock(e, sets, ids) == [error |-> e, case_sets |-> sets, case_ids |-> ids]

\* the for loop of normalize_cases, from element idx (zero-based) on
RECURSIVE normalize_loop(_, _, _, _)
normalize_loop(elems, idx, case_sets, case_ids) ==
  IF idx >= Len(elems)
  THEN CaseBlock(NoError, case_sets, case_ids)
  ELSE LET case == elems[idx + 1] IN
    IF case.t # "dict"
    THEN CaseBlock(ValueError("Case must be a dict", idx, {}), case_sets, case_ids)
    ELSE
      LET case_id == IF "id" \in DOMAIN case.v THEN case.v["id"] ELSE PyNone
          case_dict == [k \in (DOMAIN case.v) \ {"id"} |-> case.v[k]]
          ids2 == Append(case_ids, IF IsNone(case_id) THEN PyNone ELSE PyStr(str(case_id)))
          unknown == (DOMAIN case_dict) \ RESERVED_CASE_KEYS
      IN IF unknown # {}
         THEN CaseBlock(ValueError("Unknown case keys", -1, unknown), case_sets, ids2)
         ELSE normalize_loop(elems, idx + 1, Append(case_sets, case_dict), ids2)

\* normalize_cases taking None for an empty declaration
normalize_cases_none_as_empty(c) ==
  IF IsNone(c)
  THEN [none |-> FALSE, block |-> CaseBlock(NoError, <<>>, <<>>)]
  ELSE IF ~IsListOrTuple(c)
  THEN [none |-> FALSE,
        block |-> CaseBlock(ValueError("cases must be a list of dicts", -1, {}), <<>>, <<>>)]
  ELSE [none |-> FALSE, block |-> normalize_loop(c.v, 0, <<>>, <<>>)]

\* normalize_cases: none |-> TRUE is the None return
normalize_cases(c) ==
  IF IsNone(c)
  THEN [none |-> TRUE, block |-> CaseBlock(NoError, <<>>, <<>>)]
  ELSE IF ~IsListOrTuple(c)
  THEN [none |-> FALSE,
        block |-> CaseBlock(ValueError("cases must be a list of dicts", -1, {}), <<>>, <<>>)]
  ELSE [none |-> FALSE, block |-> normalize_loop(c.v, 0, <<>>, <<>>)]

NoAttrs == [has |-> FALSE, case_sets |-> <<>>, case_ids |-> <<>>]

\* set_case_attrs assigning the lists although normalization raised
set_case_attrs_partial(old, n) ==
  IF n.none
  THEN old
  ELSE [has |-> TRUE, case_sets |-> n.block.case_sets, case_ids |-> n.block.case_ids]

\* the attribute assignments of apply_cases on the object it was given
set_case_attrs(old, n) ==
  IF n.none \/ n.block.error # NoError
  THEN old
  ELSE [has |-> TRUE, case_sets |-> n.block.case_sets, case_ids |-> n.block.case_ids]

\* _merge_metadata with the base value winning on a shared key
_merge_metadata_base_wins(base, override) ==
  IF IsNone(override)
  THEN PyNone
  ELSE
    LET m1 == IF Truthy(base) THEN base.v ELSE <<>>
        m2 == IF Truthy(override)
              THEN [k \in (DOMAIN m1) \cup (DOMAIN override.v) |->
                      IF k \in DOMAIN m1 THEN m1[k] ELSE override.v[k]]
              ELSE m1
    IN IF DOMAIN m2 # {} THEN PyDict(m2) ELSE PyNone

\* _merge_metadata
_merge_metadata(base, override) ==
  IF IsNone(override)
  THEN PyNone
  ELSE
    LET m1 == IF Truthy(base) THEN base.v ELSE <<>>
        m2 == IF Truthy(override)
              THEN [k \in (DOMAIN m1) \cup (DOMAIN override.v) |->
                      IF k \in DOMAIN override.v THEN override.v[k] ELSE m1[k]]
              ELSE m1
    IN IF DOMAIN m2 # {} THEN PyDict(m2) ELSE PyNone

\* the list comprehension of _merge_labels
new_labels(base, override) == SelectSeq(override, LAMBDA l : ~InSeq(l, base))

\* _merge_labels (base a list, override None or a list)
_merge_labels(base, override) ==
  IF IsNone(override)
  THEN <<>>
  ELSE base \o new_labels(base, override.v)

\* the EvalFunction a raw function has instead of settings
NoSettings == [present |-> FALSE]

\* attribute written by EvalFunction.__init__ and not reassigned by cases.py
CtorDefault == [t |-> "ctor-default", v |-> <<>>]

\* override_or_base deciding by the value instead of the key's presence
override_or_base_by_value(case, key, base) ==
  IF key \in DOMAIN case /\ ~IsNone(case[key]) THEN case[key] ELSE base

\* case[key] if key in case else base   (lines 143, 159-163)
override_or_base(case, key, base) ==
  IF key \in DOMAIN case THEN case[key] ELSE base

\* f"{base_func.__name__}[{test_id or idx}]"   (lines 114-115)
func_name(base_name, case_ids, idx) ==
  LET test_id == IF Len(case_ids) > 0 /\ idx < Len(case_ids)
                 THEN case_ids[idx + 1] ELSE PyNone
  IN base_name \o "[" \o (IF Truthy(test_id) THEN str(test_id) ELSE ToString(idx)) \o "]"

\* resolve_labels dropping the base labels of a case without the key
resolve_labels_no_inherit(case, base_labels) ==
  IF "labels" \in DOMAIN case
  THEN LET case_labels == case["labels"] IN
       IF IsNone(case_labels) \/ EqEmptyList(case_labels)
       THEN <<>>
       ELSE _merge_labels(base_labels, PyList(case_labels.v))
  ELSE <<>>

\* the labels branch   (lines 145-152)
resolve_labels(case, base_labels) ==
  IF "labels" \in DOMAIN case
  THEN LET case_labels == case["labels"] IN
       IF IsNone(case_labels) \/ EqEmptyList(case_labels)
       THEN <<>>
       ELSE _merge_labels(base_labels, PyList(case_labels.v))
  ELSE base_labels

\* the metadata branch   (lines 154-157)
resolve_metadata(case, base_metadata) ==
  IF "metadata" \in DOMAIN case
  THEN _merge_metadata(base_metadata, case["metadata"])
  ELSE base_metadata

\* resolve_evaluators appending the override to the base evaluators
resolve_evaluators_merging(case, base_evaluators) ==
  IF "evaluators" \in DOMAIN case
  THEN LET case_evaluators == case["evaluators"] IN
       IF IsNone(case_evaluators) THEN PyList(<<>>)
       ELSE IF Truthy(base_evaluators)
       THEN PyList(base_evaluators.v \o case_evaluators.v)
       ELSE case_evaluators
  ELSE base_evaluators

\* the evaluators branch   (lines 165-169)
resolve_evaluators(case, base_evaluators) ==
  IF "evaluators" \in DOMAIN case
  THEN LET case_evaluators == case["evaluators"] IN
       IF IsNone(case_evaluators) THEN PyList(<<>>) ELSE case_evaluators
  ELSE base_evaluators

\* provided_flag reset by either of the two keys
provided_flag_any_key(eval_settings, case, key, base_flag) ==
  IF "labels" \in DOMAIN case \/ "evaluators" \in DOMAIN case
  THEN PyList(<<>>)
  ELSE IF eval_settings.present THEN base_flag ELSE CtorDefault

\* the provenance flags   (lines 184-191)
provided_flag(eval_settings, case, key, base_flag) ==
  IF key \in DOMAIN case
  THEN PyList(<<>>)
  ELSE IF eval_settings.present THEN base_flag ELSE CtorDefault

\* the wrapper defined for one case   (lines 117-131)
make_wrapper(base_func, has_context, is_async, name) ==
  [name |-> name, has_context |-> has_context, is_async |-> is_async,
   calls |-> base_func.name]

\* base_labels   (line 134)
base_labels_of(eval_settings) ==
  IF eval_settings.present
  THEN (IF Truthy(eval_settings.labels) THEN eval_settings.labels.v ELSE <<>>)
  ELSE <<>>

\* the other base_* values   (lines 133, 135-137)
base_attr(eval_settings, key) ==
  IF eval_settings.present THEN eval_settings[key] ELSE PyNone

\* eval_settings.context_kwargs.get(key)   (lines 138-141)
base_kwarg(eval_settings, key) ==
  IF eval_settings.present THEN eval_settings.context_kwargs[key] ELSE PyNone

\* one iteration of the loop: the EvalFunction appended for case idx
make_eval_func(eval_settings, base_func, has_context, is_async, case, case_ids, idx) ==
  [func |-> make_wrapper(base_func, has_context, is_async,
                         func_name(base_func.name, case_ids, idx)),
   dataset |-> override_or_base(case, "dataset", base_attr(eval_settings, "dataset")),
   labels |-> resolve_labels(case, base_labels_of(eval_settings)),
   evaluators |-> resolve_evaluators(case, base_attr(eval_settings, "evaluators")),
   target |-> override_or_base(case, "target", base_attr(eval_settings, "target")),
   input |-> override_or_base(case, "input", base_kwarg(eval_settings, "input")),
   reference |-> override_or_base(case, "reference", base_kwarg(eval_settings, "reference")),
   default_score_key |-> override_or_base(case, "default_score_key",
                                          base_kwarg(eval_settings, "default_score_key")),
   metadata |-> resolve_metadata(case, base_kwarg(eval_settings, "metadata")),
   timeout |-> override_or_base(case, "timeout", base_attr(eval_settings, "timeout")),
   _provided_labels |-> provided_flag(eval_settings, case, "labels",
        IF eval_settings.present THEN eval_settings._provided_labels ELSE PyNone),
   _provided_evaluators |-> provided_flag(eval_settings, case, "evaluators",
        IF eval_settings.present THEN eval_settings._provided_evaluators ELSE PyNone)]

\* append_function inserting at the front
prepend_function(functions, eval_func) == <<eval_func>> \o functions

\* functions.append(eval_func)   (line 193)
append_function(functions, eval_func) == Append(functions, eval_func)

\* the for loop of generate_eval_functions, from case idx (zero-based) on
RECURSIVE generate_loop(_, _, _, _, _, _, _)
generate_loop(eval_settings, base_func, has_context, is_async, table, idx, functions) ==
  IF idx >= Len(table.case_sets)
  THEN functions
  ELSE generate_loop(eval_settings, base_func, has_context, is_async, table, idx + 1,
         append_function(functions,
           make_eval_func(eval_settings, base_func, has_context, is_async,
                          table.case_sets[idx + 1], table.case_ids, idx)))

\* the attribute lookup   (lines 93-100): base_func first, then func
find_case_table(f, a) ==
  IF a["base_func"].has THEN a["base_func"]
  ELSE IF f.eval_settings.present /\ a["func"].has THEN a["func"]
  ELSE NoAttrs

\* has_context_of inspecting the signature although a specification exists
has_context_by_signature(f) == f.base_func.ctx_annotated

\* has_context   (lines 105-109)
has_context_of(f) ==
  IF f.eval_settings.present
  THEN ~IsNone(f.eval_settings.context_param)
  ELSE f.base_func.ctx_annotated

\* generate_eval_functions: the list returned, or the error raised
generate_eval_functions(f, a) ==
  LET table == find_case_table(f, a) IN
  IF ~table.has
  THEN [op |-> "generate_eval_functions",
        error |-> ValueError("does not have __case_sets__ attribute", -1, {}),
        functions |-> <<>>]
  ELSE [op |-> "generate_eval_functions",
        error |-> NoError,
        functions |-> generate_loop(f.eval_settings, f.base_func, has_context_of(f),
                                    f.base_func.is_async, table, 0, <<>>)]

\* apply_cases(obj, c): the attributes afterwards and the call's outcome
apply_cases(f, a, c) ==
  LET n == normalize_cases(c)
      obj == f.cases_on
  IN [attrs |-> [a EXCEPT ![obj] = set_case_attrs(a[obj], n)],
      ret |-> [op |-> "apply_cases", error |-> n.block.error, functions |-> <<>>]]

----------------------------------------------------------------------------
(* The functions and declarations explored *)

LabelNames == {"a", "x"}
MetadataKeys == {"j", "k"}
ScalarKeys == {"dataset", "target", "input", "reference", "default_score_key"}

\* a base specification as the eval decorator records it
EvalSettings(full, labels, metadata) ==
  [present |-> TRUE,
   dataset |-> IF full THEN PyStr("base-dataset") ELSE PyNone,
   labels |-> PyList(labels),
   evaluators |-> IF full THEN PyList(<<"e1">>) ELSE PyNone,
   target |-> IF full THEN PyStr("base-target") ELSE PyNone,
   timeout |-> IF full THEN PyInt(30) ELSE PyNone,
   context_kwargs |->
     [input |-> IF full THEN PyStr("base-input") ELSE PyNone,
      reference |-> IF full THEN PyStr("base-reference") ELSE PyNone,
      default_score_key |-> IF full THEN PyStr("base-key") ELSE PyNone,
      metadata |-> metadata],
   context_param |-> IF full THEN PyStr("ctx") ELSE PyNone,
   _provided_labels |-> IF labels = <<>> THEN PyNone ELSE PyList(labels),
   _provided_evaluators |-> IF full THEN PyList(<<"e1">>) ELSE PyNone]

BaseLabelsAndMetadata ==
  {<<<<>>, PyNone>>,
   <<<<"a">>, PyDict(<<>>)>>,
   <<<<"a", "b">>, PyDict("j" :> PyInt(0))>>}

\* decorated functions (cases applied to the raw function or to the wrapper)
\* and raw functions
Funcs ==
  {[base_func |-> [name |-> "f", is_async |-> ~full, ctx_annotated |-> ~full],
    eval_settings |-> EvalSettings(full, lm[1], lm[2]),
    cases_on |-> IF full THEN "base_func" ELSE "func"] :
      full \in BOOLEAN, lm \in BaseLabelsAndMetadata}
  \cup
  {[base_func |-> [name |-> "g", is_async |-> b, ctx_annotated |-> b],
    eval_settings |-> NoSettings,
    cases_on |-> "base_func"] : b \in BOOLEAN}

LabelOverrides ==
  {PyNone, PyList(<<>>), PyTuple(<<>>)}
  \cup {PyList(q) : q \in SeqsOf(LabelNames, 1, MaxLabels)}

MetadataOverrides ==
  {PyNone} \cup {PyDict([k \in K |-> PyInt(1)]) : K \in SUBSET MetadataKeys}

EvaluatorOverrides == {PyNone, PyList(<<>>), PyList(<<"e2">>)}

IdValues == {PyNone, PyStr(""), PyStr("a"), PyInt(0)}

\* the values a case may give to key
Overrides(key) ==
  CASE key \in ScalarKeys -> {PyNone, PyStr("case-" \o key)}
    [] key = "timeout" -> {PyNone, PyInt(5)}
    [] key = "labels" -> LabelOverrides
    [] key = "metadata" -> MetadataOverrides
    [] key = "evaluators" -> EvaluatorOverrides
    [] key = "id" -> IdValues
    [] OTHER -> {PyInt(1)}

\* the elements of the declarations about one key: the empty mapping and the
\* mappings giving that key one of the values vs
ElementsAbout(key, vs) ==
  {PyDict(<<>>)} \cup {PyDict(key :> v) : v \in vs}

\* the labels overrides that clear, and those that merge n labels
ClearingLabels == {l \in LabelOverrides : ~Truthy(l)}
MergingLabels(n) == {l \in LabelOverrides : Truthy(l) /\ Len(l.v) = n}

\* the declaration of the specification's end-to-end example
ExampleElements ==
  {PyDict(<<>>),
   PyDict(("id" :> PyStr("a")) @@ ("input" :> PyStr("x"))),
   PyDict(("id" :> PyStr("b")) @@ ("labels" :> PyList(<<>>)) @@ ("input" :> PyStr("y")))}

\* malformed elements next to well-formed ones
MalformedElements ==
  {PyDict(<<>>), PyDict("input" :> PyStr("x")), PyDict("foo" :> PyInt(1)),
   PyStr("not-a-dict")}

\* a declaration draws its elements from one family
ElementFamilies ==
  {ElementsAbout(key, Overrides(key)) : key \in (RESERVED_CASE_KEYS \ {"labels"}) \cup {"id"}}
  \cup {ElementsAbout("labels", ClearingLabels)}
  \cup {ElementsAbout("labels", MergingLabels(n)) : n \in 1..MaxLabels}
  \cup {ExampleElements, MalformedElements}

\* the sequences of up to MaxCases elements of one family
CaseSequences(families) == UNION {SeqsOf(F, 0, MaxCases) : F \in families}

\* the declarations passed to apply_cases: None, a value that is no sequence,
\* lists, and tuples
Declarations ==
  {PyNone, PyStr("not-a-list")}
  \cup {PyList(q) : q \in CaseSequences(ElementFamilies)}
  \cup {PyTuple(q) : q \in CaseSequences({ExampleElements, MalformedElements})}

----------------------------------------------------------------------------
(* Case expansion as a state machine *)

\* no apply_cases call has been made for the function yet
Undeclared == [t |-> "undeclared", v |-> <<>>]

NoStore == <<>>
NoReader ==
  [pc |-> "idle", session_name |-> "", run_name |-> "", required |-> FALSE,
   next |-> 0, seen |-> {}, existed |-> {}, always |-> {}, result |-> ""]
NoCalls == [writers |-> <<>>, reader |-> NoReader]
NoOutcome ==
  [op |-> "", session_name |-> "", run_name |-> "", required |-> FALSE,
   overwrite |-> FALSE, outcome |-> "", run_id |-> ""]

Init ==
  /\ func \in Funcs
  /\ attrs = [o \in {"base_func", "func"} |-> NoAttrs]
  /\ cases = Undeclared
  /\ ret = NoCall
  /\ store = NoStore
  /\ out = NoOutcome
  /\ calls = NoCalls

\* the eval decorator passes the function's declaration to apply_cases, once
ApplyCases(c) ==
  /\ cases = Undeclared
  /\ LET r == apply_cases(func, attrs, c) IN
       /\ attrs' = r.attrs
       /\ ret' = r.ret
  /\ cases' = c
  /\ UNCHANGED <<func, store, out, calls>>

\* discovery expands the function
Generate ==
  /\ ret' = generate_eval_functions(func, attrs)
  /\ UNCHANGED <<func, attrs, cases, store, out, calls>>

Next ==
  \/ \E c \in Declarations : ApplyCases(c)
  \/ Generate

Spec == Init /\ [][Next]_vars

----------------------------------------------------------------------------
(* RunStore and RunResolver (specification sections 4.5 and 4.6) *)

RunIds == {"run00" \o ToString(i) : i \in 1..MaxRuns}
SessionNames == {"s1", "s2"}
RunNames == {"baseline", "candidate"}
QueryNames == RunNames \cup {"missing"}

\* matches counting the runs of every session
matches_any_session(st, s, n) ==
  {id \in DOMAIN st : st[id].run_name = n}

\* the run identifiers of the records of session s named n
matches(st, s, n) ==
  {id \in DOMAIN st : st[id].session_name = s /\ st[id].run_name = n}

\* run_name-or-generated-file-name
stored_name(run_id, run_name) ==
  IF run_name = "None" THEN "generated-" \o run_id ELSE run_name

\* save_run replacing the same-named records whatever overwrite says
save_run_always_overwrite(st, run_id, s, run_name, overwrite) ==
  LET n == stored_name(run_id, run_name)
      kept == (DOMAIN st) \ (matches(st, s, n) \cup {run_id})
  IN [id \in kept \cup {run_id} |->
        IF id = run_id
        THEN [run_id |-> run_id, session_name |-> s, run_name |-> n]
        ELSE st[id]]

\* save_run: the store afterwards. The leaf is keyed by run_id; with overwrite
\* the new record takes the place of the session's records of the same name.
save_run(st, run_id, s, run_name, overwrite) ==
  LET n == stored_name(run_id, run_name)
      gone == IF overwrite THEN matches(st, s, n) ELSE {}
      kept == (DOMAIN st) \ (gone \cup {run_id})
  IN [id \in kept \cup {run_id} |->
        IF id = run_id
        THEN [run_id |-> run_id, session_name |-> s, run_name |-> n]
        ELSE st[id]]

\* resolve returning the first match of several when the run is optional
resolve_first_match(st, s, n, required) ==
  LET m == matches(st, s, n)
      q == [op |-> "resolve", session_name |-> s, run_name |-> n, required |-> required,
            overwrite |-> FALSE, outcome |-> "", run_id |-> ""]
  IN IF Cardinality(m) = 0
     THEN IF required
          THEN [q EXCEPT !.outcome = "NotFoundError"]
          ELSE [q EXCEPT !.outcome = "None"]
     ELSE IF Cardinality(m) = 1 \/ ~required
     THEN [q EXCEPT !.outcome = "record", !.run_id = CHOOSE id \in m : TRUE]
     ELSE [q EXCEPT !.outcome = "AmbiguousNameError"]

\* resolve failing for a missing run whether or not it is required
resolve_always_required(st, s, n, required) ==
  LET m == matches(st, s, n)
      q == [op |-> "resolve", session_name |-> s, run_name |-> n, required |-> required,
            overwrite |-> FALSE, outcome |-> "", run_id |-> ""]
  IN IF Cardinality(m) = 0
     THEN [q EXCEPT !.outcome = "NotFoundError"]
     ELSE IF Cardinality(m) = 1
     THEN [q EXCEPT !.outcome = "record", !.run_id = CHOOSE id \in m : TRUE]
     ELSE [q EXCEPT !.outcome = "AmbiguousNameError"]

\* resolve(session_name, run_name, required)
resolve(st, s, n, required) ==
  LET m == matches(st, s, n)
      q == [op |-> "resolve", session_name |-> s, run_name |-> n, required |-> required,
            overwrite |-> FALSE, outcome |-> "", run_id |-> ""]
  IN IF Cardinality(m) = 0
     THEN IF required
          THEN [q EXCEPT !.outcome = "NotFoundError"]
          ELSE [q EXCEPT !.outcome = "None"]
     ELSE IF Cardinality(m) = 1
     THEN [q EXCEPT !.outcome = "record", !.run_id = CHOOSE id \in m : TRUE]
     ELSE [q EXCEPT !.outcome = "AmbiguousNameError"]

InitStore ==
  /\ func \in {f \in Funcs : ~f.eval_settings.present /\ ~f.base_func.is_async}
  /\ attrs = [o \in {"base_func", "func"} |-> NoAttrs]
  /\ cases = Undeclared
  /\ ret = NoCall
  /\ store = NoStore
  /\ out = NoOutcome
  /\ calls = NoCalls

\* save_run with the run_id supplied by the caller
SaveRun(run_id, s, n, overwrite) ==
  /\ store' = save_run(store, run_id, s, n, overwrite)
  /\ out' = [op |-> "save_run", session_name |-> s, run_name |-> n, required |-> FALSE,
             overwrite |-> overwrite, outcome |-> "saved", run_id |-> run_id]
  /\ UNCHANGED <<func, attrs, cases, ret, calls>>

\* save_run with run_id=None: a run_id not in the store is generated
SaveRunGenerated(s, n, overwrite) ==
  \E run_id \in RunIds \ DOMAIN store :
    SaveRun(run_id, s, n, overwrite)

Resolve(s, n, required) ==
  /\ out' = resolve(store, s, n, required)
  /\ UNCHANGED <<func, attrs, cases, ret, store, calls>>

NextStore ==
  \/ \E run_id \in RunIds, s \in SessionNames, n \in RunNames \cup {"None"},
        overwrite \in BOOLEAN : SaveRun(run_id, s, n, overwrite)
  \/ \E s \in SessionNames, n \in RunNames \cup {"None"}, overwrite \in BOOLEAN :
        SaveRunGenerated(s, n, overwrite)
  \/ \E s \in SessionNames, n \in QueryNames, required \in BOOLEAN :
        Resolve(s, n, required)

SpecStore == InitStore /\ [][NextStore]_vars

----------------------------------------------------------------------------
(* Interleaved save_run and resolve calls.  A save_run writes its leaf and,
   with overwrite, removes the session's other records of the same name, in
   either order; a leaf becomes visible in one step.  A resolve scans the
   leaves one at a time. *)

WriterIds == {"run00" \o ToString(i) : i \in 1..MaxWriters}
ScanOrder == [i \in 1..MaxWriters |-> "run00" \o ToString(i)]
WriterNames == RunNames
ReaderSession == "s1"
ReaderName == "baseline"

\* the record a save_run call writes
record_of(run_id, w) ==
  [run_id |-> run_id, session_name |-> w.session_name,
   run_name |-> stored_name(run_id, w.run_name)]

\* a save_run call has returned
returned(w) == w.published /\ (w.overwrite => w.unlinked)

\* the leaves a scan can see, including those still being written
visible_records_partial(st, ws) ==
  [id \in DOMAIN st \cup {j \in DOMAIN ws : ~ws[j].published} |->
     IF id \in DOMAIN st THEN st[id] ELSE record_of(id, ws[id])]

\* the leaves a scan can see: the fully written ones
visible_records(st, ws) == st

\* the store after the overwrite step of a save_run
unlink_same_named(st, run_id, s, n) ==
  [id \in (DOMAIN st) \ (matches(st, s, n) \ {run_id}) |-> st[id]]

\* the store after the leaf of a save_run became visible
publish(st, run_id, rec) ==
  [id \in (DOMAIN st) \cup {run_id} |-> IF id = run_id THEN rec ELSE st[id]]

\* what a resolve in progress could have met: existed collects the matching
\* records present at some moment of the call, always those present throughout
track(r, st) ==
  IF r.pc = "scanning"
  THEN [r EXCEPT !.existed = @ \cup matches(st, r.session_name, r.run_name),
                 !.always = @ \cap matches(st, r.session_name, r.run_name)]
  ELSE r

saved(run_id, w) ==
  [op |-> "save_run", session_name |-> w.session_name, run_name |-> w.run_name,
   required |-> FALSE, overwrite |-> w.overwrite, outcome |-> "saved", run_id |-> run_id]

InitConc == InitStore

\* save_run is entered with a run_id no other call targets
BeginSave(run_id, s, n, overwrite) ==
  /\ run_id \notin DOMAIN calls.writers
  /\ Cardinality(DOMAIN calls.writers) < MaxWriters
  /\ calls' = [calls EXCEPT !.writers =
                 [id \in DOMAIN calls.writers \cup {run_id} |->
                    IF id = run_id
                    THEN [session_name |-> s, run_name |-> n, overwrite |-> overwrite,
                          published |-> FALSE, unlinked |-> FALSE]
                    ELSE calls.writers[id]]]
  /\ UNCHANGED <<func, attrs, cases, ret, store, out>>

\* the overwrite step of a save_run in progress
Unlink(run_id) ==
  /\ run_id \in DOMAIN calls.writers
  /\ LET w == calls.writers[run_id]
         w2 == [w EXCEPT !.unlinked = TRUE] IN
       /\ w.overwrite /\ ~w.unlinked
       /\ store' = unlink_same_named(store, run_id, w.session_name,
                                     stored_name(run_id, w.run_name))
       /\ calls' = [calls EXCEPT !.writers[run_id] = w2,
                                 !.reader = track(calls.reader, store')]
       /\ out' = IF returned(w2) THEN saved(run_id, w2) ELSE out
  /\ UNCHANGED <<func, attrs, cases, ret>>

\* the leaf of a save_run in progress becomes visible
Publish(run_id) ==
  /\ run_id \in DOMAIN calls.writers
  /\ LET w == calls.writers[run_id]
         w2 == [w EXCEPT !.published = TRUE] IN
       /\ ~w.published
       /\ store' = publish(store, run_id, record_of(run_id, w))
       /\ calls' = [calls EXCEPT !.writers[run_id] = w2,
                                 !.reader = track(calls.reader, store')]
       /\ out' = IF returned(w2) THEN saved(run_id, w2) ELSE out
  /\ UNCHANGED <<func, attrs, cases, ret>>

\* resolve is entered
BeginResolve(s, n, required) ==
  /\ calls.reader.pc = "idle"
  /\ calls' = [calls EXCEPT !.reader =
                 [pc |-> "scanning", session_name |-> s, run_name |-> n,
                  required |-> required, next |-> 1, seen |-> {},
                  existed |-> matches(store, s, n), always |-> matches(store, s, n),
                  result |-> ""]]
  /\ UNCHANGED <<func, attrs, cases, ret, store, out>>

\* resolve looks at the next leaf
ScanStep ==
  /\ calls.reader.pc = "scanning"
  /\ calls.reader.next <= MaxWriters
  /\ LET r == calls.reader
         id == ScanOrder[r.next]
         met == {id} \cap matches(visible_records(store, calls.writers),
                                  r.session_name, r.run_name) IN
       calls' = [calls EXCEPT !.reader.seen = r.seen \cup met,
                              !.reader.next = r.next + 1]
  /\ UNCHANGED <<func, attrs, cases, ret, store, out>>

\* resolve returns the outcome for the leaves it met
EndResolve ==
  /\ calls.reader.pc = "scanning"
  /\ calls.reader.next > MaxWriters
  /\ LET r == calls.reader
         met == [id \in r.seen |-> record_of(id, calls.writers[id])] IN
       /\ out' = resolve(met, r.session_name, r.run_name, r.required)
       /\ calls' = [calls EXCEPT !.reader.pc = "done", !.reader.result = out'.outcome]
  /\ UNCHANGED <<func, attrs, cases, ret, store>>

NextConc ==
  \/ \E run_id \in WriterIds, s \in SessionNames, n \in WriterNames, overwrite \in BOOLEAN :
        BeginSave(run_id, s, n, overwrite)
  \/ \E run_id \in WriterIds : Unlink(run_id)
  \/ \E run_id \in WriterIds : Publish(run_id)
  \/ \E required \in BOOLEAN : BeginResolve(ReaderSession, ReaderName, required)
  \/ ScanStep
  \/ EndResolve

SpecConc == InitConc /\ [][NextConc]_vars

----------------------------------------------------------------------------
(* Properties of case expansion *)

\* the most recent call expanded the function without raising
Expanded == ret.op = "generate_eval_functions" /\ ret.error = NoError

\* a declaration was applied and it is a sequence
Declared == IsListOrTuple(cases)

\* every element is a mapping over the reserved keys and id
ValidDeclaration ==
  /\ Declared
  /\ \A i \in 1..Len(cases.v) :
       /\ cases.v[i].t = "dict"
       /\ DOMAIN cases.v[i].v \subseteq RESERVED_CASE_KEYS \cup {"id"}

\* some element is a mapping with a key outside the reserved keys and id
HasUnknownKey ==
  /\ Declared
  /\ \E i \in 1..Len(cases.v) :
       /\ cases.v[i].t = "dict"
       /\ ~(DOMAIN cases.v[i].v \subseteq RESERVED_CASE_KEYS \cup {"id"})

\* the positions holding both a declared case and a unit
Positions ==
  IF Expanded /\ ValidDeclaration
  THEN {i \in 1..Len(cases.v) : i <= Len(ret.functions)}
  ELSE {}

\* the mapping declared at position i, its overrides and its declared id
Declaration(i) == cases.v[i].v
OverridesAt(i) == [k \in (DOMAIN Declaration(i)) \ {"id"} |-> Declaration(i)[k]]
DeclaredId(i) == IF "id" \in DOMAIN Declaration(i) THEN Declaration(i)["id"] ELSE PyNone

Unit(i) == ret.functions[i]

\* the base specification, and the values it gives the fields
Base == func.eval_settings
BaseLabels == IF Base.present THEN Base.labels.v ELSE <<>>
BaseValue(key) ==
  IF ~Base.present THEN PyNone
  ELSE IF key \in {"input", "reference", "default_score_key", "metadata"}
  THEN Base.context_kwargs[key]
  ELSE Base[key]

\* the unit expected for the case declared at position i
ExpectedUnit(i) ==
  make_eval_func(Base, func.base_func, has_context_of(func), func.base_func.is_async,
                 OverridesAt(i),
                 [j \in 1..Len(cases.v) |->
                    IF IsNone(DeclaredId(j)) THEN PyNone ELSE PyStr(str(DeclaredId(j)))],
                 i - 1)

\* C1: a valid declaration (list or tuple, the empty one included) expands to
\* exactly one unit per case, the unit at position i being the one built from
\* the case declared at position i.
C1_OneUnitPerCaseInOrder ==
  (ret.op = "generate_eval_functions" /\ ValidDeclaration) =>
    /\ ret.error = NoError
    /\ Len(ret.functions) = Len(cases.v)
    /\ \A i \in 1..Len(cases.v) : Unit(i) = ExpectedUnit(i)

\* C1 witness: a declaration of two different cases expanded to two units that
\* differ in a resolved field
C1_Witness ==
  /\ Expanded /\ ValidDeclaration
  /\ Len(cases.v) = 2 /\ Len(ret.functions) = 2
  /\ OverridesAt(1) # OverridesAt(2)
  /\ Unit(1).labels # Unit(2).labels

\* C2: a declaration with an unknown key in any case makes apply_cases raise a
\* validation error and leaves the function without case sets and case ids,
\* so expansion yields no unit.
C2_ValidationAtomic ==
  HasUnknownKey =>
    /\ \A o \in DOMAIN attrs : attrs[o] = NoAttrs
    /\ ret.error.type = "ValueError"
    /\ ret.functions = <<>>

\* C2 witness: the unknown key follows a well-formed case with an override,
\* and expansion was attempted after the failed apply_cases
C2_Witness ==
  /\ HasUnknownKey
  /\ Len(cases.v) = 2
  /\ cases.v[1].t = "dict" /\ DOMAIN cases.v[1].v = {"input"}
  /\ ret.op = "generate_eval_functions"

\* the case gives labels the value None or an empty list or tuple
ClearsLabels(case) ==
  /\ "labels" \in DOMAIN case
  /\ \/ IsNone(case["labels"])
     \/ IsListOrTuple(case["labels"]) /\ Len(case["labels"].v) = 0

\* C3: a case whose labels override is None or an empty sequence of any
\* accepted type (list or tuple) resolves to empty labels, whatever the base
\* labels are.
C3_ExplicitClear ==
  \A i \in Positions : ClearsLabels(OverridesAt(i)) => Unit(i).labels = <<>>

\* the ordered union: base, then each override label not yet present, once
RECURSIVE OrderedUnion(_, _)
OrderedUnion(acc, override) ==
  IF override = <<>>
  THEN acc
  ELSE OrderedUnion(IF InSeq(Head(override), acc) THEN acc ELSE Append(acc, Head(override)),
                    Tail(override))

\* the case gives labels a non-empty list
MergesLabels(case) ==
  /\ "labels" \in DOMAIN case
  /\ IsListOrTuple(case["labels"]) /\ Len(case["labels"].v) > 0

\* C4: a non-empty labels override resolves to the ordered union: the base
\* labels in base order, then the override labels not already present in
\* override order, each new label once even when the override repeats it.
C4_OrderedUnion ==
  \A i \in Positions :
    MergesLabels(OverridesAt(i)) =>
      Unit(i).labels = OrderedUnion(BaseLabels, OverridesAt(i)["labels"].v)

\* the keys of a metadata value (None has none)
MetadataKeysOf(m) == IF m.t = "dict" THEN DOMAIN m.v ELSE {}

\* the resolved metadata is the mapping over the united keys, the override's
\* value on the override's keys and the base value elsewhere
IsOverlay(resolved, base, override) ==
  /\ resolved.t = "dict"
  /\ DOMAIN resolved.v = MetadataKeysOf(base) \cup MetadataKeysOf(override)
  /\ \A k \in DOMAIN resolved.v :
       resolved.v[k] = IF k \in MetadataKeysOf(override) THEN override.v[k] ELSE base.v[k]

\* C5 as stated: with a mapping override the resolved metadata is the mapping
\* over exactly the united keys; with None it is None; without the key it is
\* the base metadata.
C5_MetadataMerge_AsStated ==
  \A i \in Positions :
    LET case == OverridesAt(i)
        base == BaseValue("metadata")
    IN IF "metadata" \notin DOMAIN case THEN Unit(i).metadata = base
       ELSE IF IsNone(case["metadata"]) THEN Unit(i).metadata = PyNone
       ELSE IsOverlay(Unit(i).metadata, base, case["metadata"])

\* C5: with a mapping override the resolved metadata is the mapping over the
\* united keys (override values on override keys, base values elsewhere), or
\* None when the united key set is empty; with None it is None; without the
\* key it is the base metadata.
C5_MetadataMerge ==
  \A i \in Positions :
    LET case == OverridesAt(i)
        base == BaseValue("metadata")
    IN IF "metadata" \notin DOMAIN case THEN Unit(i).metadata = base
       ELSE IF IsNone(case["metadata"]) THEN Unit(i).metadata = PyNone
       ELSE IF MetadataKeysOf(base) \cup MetadataKeysOf(case["metadata"]) = {}
       THEN Unit(i).metadata = PyNone
       ELSE IsOverlay(Unit(i).metadata, base, case["metadata"])

\* C5 witness: an override mapping sharing a key with a non-empty base
\* metadata and adding another key
C5_Witness ==
  \E i \in Positions :
    /\ "metadata" \in DOMAIN OverridesAt(i)
    /\ MetadataKeysOf(OverridesAt(i)["metadata"]) = {"j", "k"}
    /\ MetadataKeysOf(BaseValue("metadata")) = {"j"}
    /\ Unit(i).metadata.v["j"] # BaseValue("metadata").v["j"]

PresenceFields ==
  {"dataset", "target", "input", "reference", "default_score_key", "timeout"}

\* C6: for dataset, target, input, reference, default_score_key and timeout
\* the presence of the key decides: present, the resolved value is the
\* override value, None included; absent, it is the base value.
C6_PresenceDecides ==
  \A i \in Positions : \A key \in PresenceFields :
    Unit(i)[key] = IF key \in DOMAIN OverridesAt(i)
                   THEN OverridesAt(i)[key]
                   ELSE BaseValue(key)

\* C6 witness: a key present with None replaced a base value that is not None
C6_Witness ==
  \E i \in Positions : \E key \in PresenceFields :
    /\ key \in DOMAIN OverridesAt(i)
    /\ IsNone(OverridesAt(i)[key])
    /\ ~IsNone(BaseValue(key))
    /\ IsNone(Unit(i)[key])

\* C7: a case without any reserved key (with or without an id) resolves every
\* field to the base specification's value; a case clearing labels in the
\* same expansion leaves the labels and timeout of the other cases alone.
C7_NoOpIdentity ==
  Base.present =>
    /\ \A i \in Positions :
         OverridesAt(i) = <<>> =>
           /\ Unit(i).labels = BaseLabels
           /\ \A key \in PresenceFields \cup {"evaluators", "metadata"} :
                Unit(i)[key] = BaseValue(key)
    /\ \A i \in Positions, j \in Positions :
         (i # j /\ ClearsLabels(OverridesAt(i))) =>
           /\ "labels" \notin DOMAIN OverridesAt(j) => Unit(j).labels = BaseLabels
           /\ "timeout" \notin DOMAIN OverridesAt(j) => Unit(j).timeout = BaseValue("timeout")

\* C7 witness: a no-op case keeps non-empty base labels and a timeout next to
\* a case that cleared its labels
C7_Witness ==
  /\ Base.present
  /\ \E i \in Positions, j \in Positions :
       /\ OverridesAt(j) = <<>>
       /\ ClearsLabels(OverridesAt(i)) /\ Unit(i).labels = <<>>
       /\ Unit(j).labels = BaseLabels /\ BaseLabels # <<>>
       /\ Unit(j).timeout = PyInt(30)

\* C8: the unit at position i is named "<base-name>[<id>]" when its case
\* declared an id other than None (stringified, whatever the string is) and
\* "<base-name>[<i>]" with its zero-based position otherwise.
C8_DisplayName ==
  \A i \in Positions :
    Unit(i).func.name =
      func.base_func.name \o "["
        \o (IF IsNone(DeclaredId(i)) THEN ToString(i - 1) ELSE str(DeclaredId(i)))
        \o "]"

----------------------------------------------------------------------------
(* Properties of run-name resolution *)

\* the most recent call was resolve(s, n, required); the store is as it was
Resolved == out.op = "resolve"
Matching == matches(store, out.session_name, out.run_name)

\* C9: with two or more runs of the session under the name, resolve fails
\* with the ambiguity error for required and optional lookups alike and
\* returns no run.
C9_AmbiguityAlwaysError ==
  (Resolved /\ Cardinality(Matching) >= 2) =>
    (out.outcome = "AmbiguousNameError" /\ out.run_id = "")

\* C9 witness: an optional lookup of a name two runs of the session carry
C9_Witness ==
  /\ Resolved /\ ~out.required
  /\ Cardinality(Matching) >= 2
  /\ out.outcome = "AmbiguousNameError"

\* C10: with no run of the session under the name, an optional resolve
\* returns no record without error, a required one fails with the not-found
\* error, and neither changes the store.
C10_ZeroMatches ==
  /\ [](  (Resolved /\ Matching = {}) =>
            /\ out.run_id = ""
            /\ out.outcome = IF out.required THEN "NotFoundError" ELSE "None")
  /\ [][(out'.op = "resolve" /\ out' # out) => store' = store]_vars

\* C10 witness: a required lookup of a name no run of the session carries,
\* in a session holding a run under another name
C10_Witness ==
  /\ Resolved /\ out.required
  /\ Matching = {}
  /\ \E id \in DOMAIN store : store[id].session_name = out.session_name
  /\ out.outcome = "NotFoundError"

\* C11: with exactly one run of the session under the name, resolve returns
\* that run for either value of required; its run_id is the identifier
\* save_run returned for it and its stored run_name is the queried name; runs
\* of other sessions under the same name do not count.
C11_UniqueMatch ==
  /\ []((Resolved /\ Cardinality(Matching) = 1) =>
          /\ out.outcome = "record"
          /\ out.run_id \in Matching
          /\ store[out.run_id].run_id = out.run_id
          /\ store[out.run_id].run_name = out.run_name
          /\ store[out.run_id].session_name = out.session_name)
  /\ [][out'.op = "save_run" =>
          /\ out'.run_id \in DOMAIN store'
          /\ store'[out'.run_id].run_id = out'.run_id]_vars

\* C11 witness: a required lookup returned the session's only run of the
\* name while another session holds a run of the same name
C11_Witness ==
  /\ Resolved /\ out.required /\ out.outcome = "record"
  /\ Matching = {out.run_id}
  /\ \E id \in DOMAIN store :
       /\ store[id].run_name = out.run_name
       /\ store[id].session_name # out.session_name

\* C12: a save_run with overwrite=False succeeds and leaves every record of
\* another run_id as it was, so two such calls for the same session and name
\* with different run_ids leave both records in the session.
C12_DuplicateNamesCoexist ==
  [][(out'.op = "save_run" /\ ~out'.overwrite) =>
       /\ out'.outcome = "saved"
       /\ out'.run_id \in DOMAIN store'
       /\ store'[out'.run_id].session_name = out'.session_name
       /\ \A id \in (DOMAIN store) \ {out'.run_id} :
            id \in DOMAIN store' /\ store'[id] = store[id]]_vars

\* C12 witness: after a save_run with overwrite=False the session holds two
\* runs of the saved name
C12_Witness ==
  /\ out.op = "save_run" /\ ~out.overwrite
  /\ out.run_id \in DOMAIN store
  /\ \E id \in DOMAIN store :
       /\ id # out.run_id
       /\ store[id].session_name = store[out.run_id].session_name
       /\ store[id].run_name = store[out.run_id].run_name

----------------------------------------------------------------------------
(* Further properties of case expansion *)

\* every index of the returned list
UnitPositions == IF Expanded THEN 1..Len(ret.functions) ELSE {}

\* C13: expanding a function that carries no case table (never passed to
\* apply_cases, or passed with cases=None, which leaves it unmodified) raises
\* the missing-attribute error and returns no units.
C13_NoTableFails ==
  /\ IsNone(cases) =>
       /\ \A o \in DOMAIN attrs : attrs[o] = NoAttrs
       /\ ret.op = "apply_cases" => ret.error = NoError
  /\ (ret.op = "generate_eval_functions" /\ (cases = Undeclared \/ IsNone(cases))) =>
       /\ ret.error = ValueError("does not have __case_sets__ attribute", -1, {})
       /\ ret.functions = <<>>

\* C13 witness: expansion attempted after apply_cases with cases=None
C13_Witness ==
  /\ IsNone(cases)
  /\ ret.op = "generate_eval_functions"
  /\ ret.error.type = "ValueError"

\* C14: all units of an expansion get a callable of one variant: asynchronous
\* exactly when the base implementation is, context-aware exactly when the
\* base specification's context_param is set (without a base specification,
\* exactly when a parameter is annotated with the evaluation context), and
\* calling the one base implementation.
C14_CallingConvention ==
  \A i \in UnitPositions :
    /\ Unit(i).func.is_async = func.base_func.is_async
    /\ Unit(i).func.has_context =
         IF Base.present THEN ~IsNone(Base.context_param) ELSE func.base_func.ctx_annotated
    /\ Unit(i).func.calls = func.base_func.name

\* C14 witness: two units of a decorated function whose context_param
\* disagrees with the signature's annotation
C14_Witness ==
  /\ Base.present /\ Expanded
  /\ Len(ret.functions) = 2
  /\ Unit(1).func.has_context /\ Unit(2).func.has_context
  /\ ~func.base_func.ctx_annotated

\* C15: the resolved metadata of a unit is None or a mapping with at least
\* one key, whatever the base metadata and the case are.
C15_MetadataNeverEmpty ==
  \A i \in UnitPositions :
    IsNone(Unit(i).metadata) \/ (Unit(i).metadata.t = "dict" /\ DOMAIN Unit(i).metadata.v # {})

\* C16: with the key evaluators in the case the resolved evaluators are the
\* empty list for None and the override value itself otherwise; without the
\* key they are the base evaluators.
C16_EvaluatorsReplaced ==
  \A i \in Positions :
    Unit(i).evaluators =
      IF "evaluators" \notin DOMAIN OverridesAt(i) THEN BaseValue("evaluators")
      ELSE IF IsNone(OverridesAt(i)["evaluators"]) THEN PyList(<<>>)
      ELSE OverridesAt(i)["evaluators"]

\* C16 witness: an override list without the base evaluator replaced
\* non-empty base evaluators
C16_Witness ==
  \E i \in Positions :
    /\ "evaluators" \in DOMAIN OverridesAt(i)
    /\ Truthy(OverridesAt(i)["evaluators"])
    /\ Truthy(BaseValue("evaluators"))
    /\ \A k \in 1..Len(BaseValue("evaluators").v) :
         ~InSeq(BaseValue("evaluators").v[k], Unit(i).evaluators.v)

\* C17: under a base specification, a unit's labels flag is the base's flag
\* when the case has no key labels and the empty list when it has, whatever
\* the value; likewise, and independently, the evaluators flag and the key
\* evaluators.
C17_ProvenanceFlags ==
  Base.present =>
    \A i \in Positions :
      /\ Unit(i)._provided_labels =
           IF "labels" \in DOMAIN OverridesAt(i) THEN PyList(<<>>) ELSE Base._provided_labels
      /\ Unit(i)._provided_evaluators =
           IF "evaluators" \in DOMAIN OverridesAt(i) THEN PyList(<<>>)
           ELSE Base._provided_evaluators

\* C17 witness: a case with labels only reset the labels flag and kept a
\* base evaluators flag that is not empty
C17_Witness ==
  /\ Base.present
  /\ \E i \in Positions :
       /\ "labels" \in DOMAIN OverridesAt(i)
       /\ "evaluators" \notin DOMAIN OverridesAt(i)
       /\ Truthy(OverridesAt(i)["labels"])
       /\ Unit(i)._provided_labels = PyList(<<>>)
       /\ Unit(i)._provided_evaluators = Base._provided_evaluators
       /\ Truthy(Base._provided_evaluators)

----------------------------------------------------------------------------
(* Properties of interleaved save_run and resolve calls *)

Writers == DOMAIN calls.writers
AllReturned == Writers # {} /\ \A id \in Writers : returned(calls.writers[id])

\* another call saved the same session and name with overwrite
Overwritten(id) ==
  \E j \in Writers \ {id} :
    /\ calls.writers[j].overwrite
    /\ calls.writers[j].session_name = calls.writers[id].session_name
    /\ stored_name(j, calls.writers[j].run_name) = stored_name(id, calls.writers[id].run_name)

\* the resolve call returned an outcome of the records it met, each of them
\* fully written at some moment of the call, none missing that was there
\* throughout
ReaderConsistent ==
  LET r == calls.reader IN
  r.pc = "done" =>
    /\ r.always \subseteq r.seen
    /\ r.seen \subseteq r.existed
    /\ r.result = resolve([id \in r.seen |-> record_of(id, calls.writers[id])],
                          r.session_name, r.run_name, r.required).outcome

====
